---- MODULE Spec2Model ----
(***************************************************************************)
(* Model of dags/create_hourly_air_quality_report.py: one run of the DAG   *)
(* create_aq_report, i.e. the three tasks                                  *)
(*     get_aq_data_last_day >> caluclate_avg_aq_per_hour >> send_aq_report *)
(* reading include/aq_data.csv for the logical timestamp context["ts"].    *)
(*                                                                         *)
(* Time texts ("%Y-%m-%dT%H:%M:%S%z") are records of their fields: day     *)
(* (1 = 2025-01-01), hh, mm, ss and tz (the UTC offset in hours); ok is    *)
(* FALSE for a text strptime rejects.  Decimal texts are records of the    *)
(* value float() returns (val) and ok, FALSE for a text float() rejects.   *)
(* Values are small integers, so sum() is exact; a mean is kept as the     *)
(* reduced fraction num/den that the float division rounds.                *)
(***************************************************************************)
EXTENDS Integers, Sequences, FiniteSets, TLC

VARIABLES
    context_ts,        \* context["ts"]: the run's logical timestamp (a time text)
    delay_aq_fetch,    \* context["params"]["delay_aq_fetch"]
    file_exists,       \* os.path.isfile("include/aq_data.csv")
    csv_rows,          \* list(csv.DictReader(file)): the rows of the file, in file order
    task_state,        \* state of each task of the run
    last_day_aq_data,  \* return value of get_aq_data_last_day
    hour_i,            \* position of caluclate_avg_aq_per_hour's loop in last_24_hours
    avg_aq_per_hour,   \* the dict built (and returned) by caluclate_avg_aq_per_hour
    t_log,             \* lines sent to the airflow.task logger by send_aq_report
    dataset_events     \* Datasets updated by the run (outlets of successful tasks)

vars == <<context_ts, delay_aq_fetch, file_exists, csv_rows, task_state,
          last_day_aq_data, hour_i, avg_aq_per_hour, t_log, dataset_events>>

\* Bound: the longest input file explored.
MaxRows == 2

Tasks == {"get_aq_data_last_day", "caluclate_avg_aq_per_hour", "send_aq_report"}

-----------------------------------------------------------------------------
(* Texts and their parsing *)

TimeText(day, hh, mm, ss, tz) ==
    [ok |-> TRUE, day |-> day, hh |-> hh, mm |-> mm, ss |-> ss, tz |-> tz]

BadTimeText == [ok |-> FALSE, day |-> 0, hh |-> 0, mm |-> 0, ss |-> 0, tz |-> 0]

DecimalText(v) == [ok |-> TRUE, val |-> v]

BadDecimalText == [ok |-> FALSE, val |-> 0]

Row(t, a, b) == [timestamp |-> t, pm2_5 |-> a, pm10 |-> b]

\* datetime.strptime(text, "%Y-%m-%dT%H:%M:%S%z"): an aware datetime holding the
\* fields of the text; raises ValueError when the text does not match.
strptime_raises(text) == ~text.ok

strptime(text) ==
    [day |-> text.day, hour |-> text.hh, minute |-> text.mm,
     second |-> text.ss, utcoffset |-> text.tz]

timedelta_hours(n) == n * 3600

\* The instant of an aware datetime (seconds since 2024-12-31T00:00:00Z): aware
\* datetimes are compared after subtracting their UTC offsets.
utc_seconds(dt) ==
    ((dt.day * 24 + dt.hour) * 60 + dt.minute) * 60 + dt.second
        - timedelta_hours(dt.utcoffset)

\* float(text) raises ValueError when the text is no number.
float_raises(text) == ~text.ok

float(text) == text.val

-----------------------------------------------------------------------------
(* get_aq_data_last_day *)

\* cutoff_time = strptime(ts) - timedelta(hours=23), as an instant
cutoff_time(ts) == utc_seconds(strptime(ts)) - timedelta_hours(23)

in_window_strict(row, ts) ==
    utc_seconds(strptime(row.timestamp)) > cutoff_time(ts)

\* the condition of the list comprehension: strptime(row["timestamp"]) >= cutoff_time
in_window(row, ts) ==
    utc_seconds(strptime(row.timestamp)) >= cutoff_time(ts)

\* the list comprehension raises when strptime raises on any row of the file
filter_raises(data, ts) ==
    \E k \in 1..Len(data) : strptime_raises(data[k].timestamp)

filter_last_day(data, ts) ==
    LET keep(row) == in_window(row, ts) IN SelectSeq(data, keep)

-----------------------------------------------------------------------------
(* caluclate_avg_aq_per_hour *)

\* current_hour = strptime(ts).hour
current_hour(ts) == strptime(ts).hour

last_24_hours_mod_12(ts) == [i \in 1..24 |-> (current_hour(ts) - (i - 1)) % 12]

last_24_hours_no_mod(ts) == [i \in 1..24 |-> current_hour(ts) - (i - 1)]

last_24_hours_ascending(ts) == [i \in 1..24 |-> (current_hour(ts) + (i - 1)) % 24]

\* last_24_hours = [(current_hour - i) % 24 for i in range(24)]
last_24_hours(ts) == [i \in 1..24 |-> (current_hour(ts) - (i - 1)) % 24]

\* data_for_hour = [row for row in last_day_aq_data if strptime(row["timestamp"]).hour == hour]
data_for_hour(data, hour) ==
    LET match(row) == strptime(row.timestamp).hour = hour IN SelectSeq(data, match)

floats_raise_pm2_5_only(rows) ==
    \E k \in 1..Len(rows) : float_raises(rows[k].pm2_5)

\* the two list comprehensions of float(...) raise when float raises on a selected row
floats_raise(rows) ==
    \E k \in 1..Len(rows) : float_raises(rows[k].pm2_5) \/ float_raises(rows[k].pm10)

pm2_5_values(rows) == [k \in 1..Len(rows) |-> float(rows[k].pm2_5)]

pm10_values_copied(rows) == [k \in 1..Len(rows) |-> float(rows[k].pm2_5)]

pm10_values(rows) == [k \in 1..Len(rows) |-> float(rows[k].pm10)]

RECURSIVE sum(_)
sum(values) == IF values = << >> THEN 0 ELSE Head(values) + sum(Tail(values))

RECURSIVE gcd(_, _)
gcd(a, b) == IF b = 0 THEN a ELSE gcd(b, a % b)

NoData == [nodata |-> TRUE, num |-> 0, den |-> 1]

\* the quotient n / d, d > 0, n >= 0
Quotient(n, d) ==
    LET g == gcd(n, d) IN [nodata |-> FALSE, num |-> n \div g, den |-> d \div g]

\* sum(values) / len(values) if len(values) != 0 else "NO DATA"
average(values) ==
    IF Len(values) # 0 THEN Quotient(sum(values), Len(values)) ELSE NoData

\* str(hour)
str(n) == ToString(n)

\* d[key] = value on a dict kept in insertion order: an existing key keeps its
\* place and takes the new value, a new key goes last.
dict_set(d, key, value) ==
    IF \E k \in 1..Len(d) : d[k].key = key
    THEN [k \in 1..Len(d) |-> IF d[k].key = key THEN [key |-> key, value |-> value] ELSE d[k]]
    ELSE Append(d, [key |-> key, value |-> value])

\* avg_aq_per_hour[str(hour)] = {"avg_pm2_5": avg_pm2_5, "avg_pm10": avg_pm10}
hour_entry(rows) ==
    [avg_pm2_5 |-> average(pm2_5_values(rows)), avg_pm10 |-> average(pm10_values(rows))]

-----------------------------------------------------------------------------
(* send_aq_report *)

\* f"Day {day} Hour {entry}: PM2.5: {...['avg_pm2_5']}, PM10: {...['avg_pm10']}"
\* with day = context["ts"].split("T")[0]
report_line(ts, entry) ==
    [day |-> ts.day, hour |-> entry.key,
     pm2_5 |-> entry.value.avg_pm2_5, pm10 |-> entry.value.avg_pm10]

-----------------------------------------------------------------------------
(* The DAG: task wiring, outlets, outcome of the run *)

upstream_of_extractor(task) ==
    IF task = "get_aq_data_last_day" THEN {} ELSE {"get_aq_data_last_day"}

\* _get = get_aq_data_last_day(); _calc = caluclate_avg_aq_per_hour(_get); send_aq_report(_calc)
upstream(task) ==
    CASE task = "get_aq_data_last_day" -> {}
      [] task = "caluclate_avg_aq_per_hour" -> {"get_aq_data_last_day"}
      [] task = "send_aq_report" -> {"caluclate_avg_aq_per_hour"}

outlets_on_aggregator(task) ==
    IF task = "caluclate_avg_aq_per_hour" THEN {"aq_report"} ELSE {}

\* @task(outlets=[Dataset("aq_report")]) on send_aq_report only
outlets(task) == IF task = "send_aq_report" THEN {"aq_report"} ELSE {}

\* A task runs once every task upstream of it has succeeded (the default trigger rule).
runnable(task) ==
    /\ task_state[task] \in {"none", "running"}
    /\ \A u \in upstream(task) : task_state[u] = "success"

\* What the run reports to the scheduler.
run_outcome ==
    IF \E t \in Tasks : task_state[t] = "failed" THEN "failed"
    ELSE IF \E t \in Tasks : task_state[t] = "skipped" THEN "skipped"
    ELSE IF \A t \in Tasks : task_state[t] = "success" THEN "success"
    ELSE "running"

-----------------------------------------------------------------------------
(* Inputs *)

\* Logical timestamps of scheduled runs ("0 * * * *", always +00:00):
\* 2025-01-02T01:00:00 (the 24 hours wrap around midnight) and 2025-01-02T23:00:00.
RunTimes == {TimeText(2, 1, 0, 0, 0), TimeText(2, 23, 0, 0, 0)}

\* Well-formed rows around the two cutoffs 2025-01-01T02:00:00Z and 2025-01-02T00:00:00Z.
\* The run for the interval starting at ts executes at ts + 1h or later (61 minutes
\* later still with delay_aq_fetch), so the file holds rows stamped after ts.
GoodRows ==
    { Row(TimeText(1, 1, 59, 59, 0), DecimalText(10), DecimalText(20)),
      Row(TimeText(1, 2, 0, 0, 0), DecimalText(10), DecimalText(20)),
      Row(TimeText(1, 2, 30, 0, 0), DecimalText(25), DecimalText(40)),
      Row(TimeText(1, 23, 59, 59, 0), DecimalText(10), DecimalText(20)),
      Row(TimeText(2, 0, 0, 0, 0), DecimalText(10), DecimalText(20)),
      Row(TimeText(2, 2, 0, 0, 0), DecimalText(10), DecimalText(20)),
      Row(TimeText(1, 2, 59, 59, 1), DecimalText(10), DecimalText(20)),
      Row(TimeText(1, 3, 0, 0, 1), DecimalText(10), DecimalText(20)) }

\* Rows with a field that does not parse, before every cutoff and inside every window.
MalformedRows ==
    { Row(BadTimeText, DecimalText(10), DecimalText(20)),
      Row(TimeText(1, 1, 59, 59, 0), BadDecimalText, DecimalText(20)),
      Row(TimeText(1, 1, 59, 59, 0), DecimalText(10), BadDecimalText),
      Row(TimeText(2, 0, 0, 0, 0), BadDecimalText, DecimalText(20)),
      Row(TimeText(2, 0, 0, 0, 0), DecimalText(10), BadDecimalText) }

SampleRows == GoodRows \cup MalformedRows

Files == UNION {[1..n -> SampleRows] : n \in 0..MaxRows}

-----------------------------------------------------------------------------
(* The run *)

Init ==
    /\ context_ts \in RunTimes
    /\ delay_aq_fetch \in BOOLEAN
    /\ file_exists \in BOOLEAN
    /\ csv_rows \in (IF file_exists THEN Files ELSE {<< >>})
    /\ task_state = [t \in Tasks |-> "none"]
    /\ last_day_aq_data = << >>
    /\ hour_i = 1
    /\ avg_aq_per_hour = << >>
    /\ t_log = << >>
    /\ dataset_events = {}

\* if delay_aq_fetch: time.sleep(60 * 61)
Sleep ==
    /\ task_state["get_aq_data_last_day"] = "none"
    /\ delay_aq_fetch
    /\ task_state' = [task_state EXCEPT !["get_aq_data_last_day"] = "running"]
    /\ UNCHANGED <<context_ts, delay_aq_fetch, file_exists, csv_rows, last_day_aq_data,
                   hour_i, avg_aq_per_hour, t_log, dataset_events>>

GetAqDataLastDay_NoFileCheck ==
    /\ task_state["get_aq_data_last_day"] = (IF delay_aq_fetch THEN "running" ELSE "none")
    /\ IF ~file_exists \/ filter_raises(csv_rows, context_ts)
       THEN /\ task_state' = [task_state EXCEPT !["get_aq_data_last_day"] = "failed"]
            /\ UNCHANGED <<last_day_aq_data, dataset_events>>
       ELSE /\ task_state' = [task_state EXCEPT !["get_aq_data_last_day"] = "success"]
            /\ last_day_aq_data' = filter_last_day(csv_rows, context_ts)
            /\ dataset_events' = dataset_events \cup outlets("get_aq_data_last_day")
    /\ UNCHANGED <<context_ts, delay_aq_fetch, file_exists, csv_rows,
                   hour_i, avg_aq_per_hour, t_log>>

\* get_aq_data_last_day after the optional sleep: the isfile check, the read, the filter
GetAqDataLastDay ==
    /\ task_state["get_aq_data_last_day"] = (IF delay_aq_fetch THEN "running" ELSE "none")
    /\ IF ~file_exists
       THEN /\ task_state' = [task_state EXCEPT !["get_aq_data_last_day"] = "skipped"]
            /\ UNCHANGED <<last_day_aq_data, dataset_events>>
       ELSE IF filter_raises(csv_rows, context_ts)
       THEN /\ task_state' = [task_state EXCEPT !["get_aq_data_last_day"] = "failed"]
            /\ UNCHANGED <<last_day_aq_data, dataset_events>>
       ELSE /\ task_state' = [task_state EXCEPT !["get_aq_data_last_day"] = "success"]
            /\ last_day_aq_data' = filter_last_day(csv_rows, context_ts)
            /\ dataset_events' = dataset_events \cup outlets("get_aq_data_last_day")
    /\ UNCHANGED <<context_ts, delay_aq_fetch, file_exists, csv_rows,
                   hour_i, avg_aq_per_hour, t_log>>

\* One iteration of "for hour in last_24_hours"; the last one is followed by the return.
CalcHour ==
    /\ runnable("caluclate_avg_aq_per_hour")
    /\ hour_i <= Len(last_24_hours(context_ts))
    /\ LET hour == last_24_hours(context_ts)[hour_i]
           rows == data_for_hour(last_day_aq_data, hour)
       IN  IF floats_raise(rows)
           THEN /\ task_state' = [task_state EXCEPT !["caluclate_avg_aq_per_hour"] = "failed"]
                /\ UNCHANGED <<hour_i, avg_aq_per_hour, dataset_events>>
           ELSE /\ avg_aq_per_hour' = dict_set(avg_aq_per_hour, str(hour), hour_entry(rows))
                /\ hour_i' = hour_i + 1
                /\ IF hour_i = Len(last_24_hours(context_ts))
                   THEN /\ task_state' =
                              [task_state EXCEPT !["caluclate_avg_aq_per_hour"] = "success"]
                        /\ dataset_events' =
                              dataset_events \cup outlets("caluclate_avg_aq_per_hour")
                   ELSE /\ task_state' =
                              [task_state EXCEPT !["caluclate_avg_aq_per_hour"] = "running"]
                        /\ UNCHANGED dataset_events
    /\ UNCHANGED <<context_ts, delay_aq_fetch, file_exists, csv_rows, last_day_aq_data, t_log>>

\* One iteration of "for entry in avg_aq_per_hour": t_log.info(line); after the last
\* one the task succeeds and its outlet is updated.
SendLine ==
    /\ runnable("send_aq_report")
    /\ Len(t_log) < Len(avg_aq_per_hour)
    /\ t_log' = Append(t_log, report_line(context_ts, avg_aq_per_hour[Len(t_log) + 1]))
    /\ IF Len(t_log) + 1 = Len(avg_aq_per_hour)
          /\ task_state["caluclate_avg_aq_per_hour"] = "success"
       THEN /\ task_state' = [task_state EXCEPT !["send_aq_report"] = "success"]
            /\ dataset_events' = dataset_events \cup outlets("send_aq_report")
       ELSE /\ task_state' = [task_state EXCEPT !["send_aq_report"] = "running"]
            /\ UNCHANGED dataset_events
    /\ UNCHANGED <<context_ts, delay_aq_fetch, file_exists, csv_rows, last_day_aq_data,
                   hour_i, avg_aq_per_hour>>

Next == Sleep \/ GetAqDataLastDay \/ CalcHour \/ SendLine

Spec == Init /\ [][Next]_vars

-----------------------------------------------------------------------------
(* Vocabulary of the properties, stated on the texts of the file *)

\* The instant a well-formed time text denotes, in seconds.
InstantOf(text) ==
    text.day * 86400 + text.hh * 3600 + text.mm * 60 + text.ss - text.tz * 3600

\* The instant 23 hours before the run time.
Cutoff == InstantOf(context_ts) - 23 * 3600

\* The k-th smallest element of a finite set of numbers.
RECURSIVE NthSmallest(_, _)
NthSmallest(S, k) ==
    LET m == CHOOSE x \in S : \A y \in S : x <= y
    IN  IF k = 1 THEN m ELSE NthSmallest(S \ {m}, k - 1)

\* The sum of f over a finite set of indices.
RECURSIVE SumOver(_, _)
SumOver(f, S) ==
    IF S = {} THEN 0
    ELSE LET x == CHOOSE y \in S : TRUE IN f[x] + SumOver(f, S \ {x})

\* The hour the i-th report entry or line stands for, counted back from the run's hour.
HourAt(i) == (context_ts.hh - (i - 1)) % 24

Extracted == task_state["get_aq_data_last_day"] = "success"

Aggregated == task_state["caluclate_avg_aq_per_hour"] = "success"

\* Indices of the Window readings whose hour-of-day is h.
WindowAtHour(h) ==
    {j \in 1..Len(last_day_aq_data) : last_day_aq_data[j].timestamp.hh = h}

-----------------------------------------------------------------------------
(* Properties *)

\* C1: the Report returned by caluclate_avg_aq_per_hour has exactly 24 entries, one
\* for each hour-of-day 0..23: no hour key is missing and none appears twice,
\* whatever the Window (the empty one included) and the run time.
C1_ReportHas24Hours ==
    Aggregated =>
        /\ Len(avg_aq_per_hour) = 24
        /\ \A h \in 0..23 :
              Cardinality({k \in 1..Len(avg_aq_per_hour) :
                              avg_aq_per_hour[k].key = ToString(h)}) = 1

C1_Witness ==
    /\ Aggregated
    /\ last_day_aq_data = << >>
    /\ Len(avg_aq_per_hour) = 24

\* C2: when the input file does not exist at the check, the run ends skipped (neither
\* success nor failure), the Aggregator and the Emitter never execute, no line is
\* emitted and no dataset is updated, with or without the delay.
C2_MissingFileSkips ==
    ~file_exists =>
        /\ task_state["caluclate_avg_aq_per_hour"] = "none"
        /\ task_state["send_aq_report"] = "none"
        /\ hour_i = 1 /\ avg_aq_per_hour = << >>
        /\ t_log = << >>
        /\ dataset_events = {}
        /\ run_outcome \in {"running", "skipped"}
        /\ task_state["get_aq_data_last_day"] \notin {"none", "running"}
              => run_outcome = "skipped"
        /\ ~ENABLED Next => run_outcome = "skipped"

C2_Witness ==
    /\ ~file_exists
    /\ delay_aq_fetch
    /\ task_state["get_aq_data_last_day"] = "skipped"
    /\ run_outcome = "skipped"

C4_EntryIsMeanOfItsHour ==
    \A k \in 1..Len(avg_aq_per_hour) : \A h \in 0..23 :
        avg_aq_per_hour[k].key = ToString(h) =>
            LET at == WindowAtHour(h)
                pm2_5 == [j \in at |-> last_day_aq_data[j].pm2_5.val]
                pm10 == [j \in at |-> last_day_aq_data[j].pm10.val]
                e == avg_aq_per_hour[k].value
            IN  IF at = {}
                THEN e.avg_pm2_5.nodata /\ e.avg_pm10.nodata
                ELSE /\ ~e.avg_pm2_5.nodata /\ ~e.avg_pm10.nodata
                     /\ e.avg_pm2_5.num * Cardinality(at) = e.avg_pm2_5.den * SumOver(pm2_5, at)
                     /\ e.avg_pm10.num * Cardinality(at) = e.avg_pm10.den * SumOver(pm10, at)

C4_Witness ==
    /\ Aggregated
    /\ \E k \in 1..Len(avg_aq_per_hour) :
          /\ avg_aq_per_hour[k].value.avg_pm2_5 = [nodata |-> FALSE, num |-> 35, den |-> 2]
          /\ avg_aq_per_hour[k].value.avg_pm10 = [nodata |-> FALSE, num |-> 30, den |-> 1]
    /\ \E k \in 1..Len(avg_aq_per_hour) : avg_aq_per_hour[k].value.avg_pm2_5.nodata

\* C5: the Report's entries are in the order current_hour, current_hour - 1, ...,
\* current_hour - 23 (mod 24) and send_aq_report emits its lines in that order.
C5_ReverseChronologicalOrder ==
    /\ \A i \in 1..Len(avg_aq_per_hour) : avg_aq_per_hour[i].key = ToString(HourAt(i))
    /\ \A i \in 1..Len(t_log) : t_log[i].hour = ToString(HourAt(i))

C5_Witness ==
    /\ task_state["send_aq_report"] = "success"
    /\ Len(t_log) = 24
    /\ context_ts.hh = 1
    /\ t_log[3].hour = "23"

\* A row of the file fails timestamp parsing, or numeric parsing of pm2_5 or pm10.
SomeRowMalformed ==
    \E k \in 1..Len(csv_rows) :
        ~csv_rows[k].timestamp.ok \/ ~csv_rows[k].pm2_5.ok \/ ~csv_rows[k].pm10.ok

\* A row fails timestamp parsing, or a row at or after the cutoff fails numeric parsing.
SomeParsedRowMalformed ==
    \/ \E k \in 1..Len(csv_rows) : ~csv_rows[k].timestamp.ok
    \/ \E k \in 1..Len(csv_rows) :
          /\ InstantOf(csv_rows[k].timestamp) >= Cutoff
          /\ ~csv_rows[k].pm2_5.ok \/ ~csv_rows[k].pm10.ok

C7_SuccessEmits24AndNotifies ==
    /\ run_outcome = "success" =>
          /\ Len(t_log) = 24
          /\ Len(avg_aq_per_hour) = 24
          /\ \A i \in 1..24 :
                /\ t_log[i].hour = avg_aq_per_hour[i].key
                /\ t_log[i].pm2_5 = avg_aq_per_hour[i].value.avg_pm2_5
                /\ t_log[i].pm10 = avg_aq_per_hour[i].value.avg_pm10
                /\ t_log[i].day = context_ts.day
          /\ "aq_report" \in dataset_events
    /\ "aq_report" \in dataset_events => \A t \in Tasks : task_state[t] = "success"

C7_Witness ==
    /\ run_outcome = "success"
    /\ Len(t_log) = 24
    /\ dataset_events = {"aq_report"}
    /\ last_day_aq_data # << >>

\* C8: a line is emitted only after the Extractor and then the Aggregator have
\* completed with the full 24-entry Report; a run that fails in either has emitted
\* no line.
C8_NoEmissionBeforeFullReport ==
    /\ t_log # << >> =>
          /\ Extracted
          /\ Aggregated
          /\ Len(avg_aq_per_hour) = 24
    /\ (\/ task_state["get_aq_data_last_day"] = "failed"
        \/ task_state["caluclate_avg_aq_per_hour"] = "failed") => t_log = << >>

C8_Witness ==
    /\ task_state["caluclate_avg_aq_per_hour"] = "failed"
    /\ avg_aq_per_hour # << >>
    /\ t_log = << >>
    /\ ~ENABLED Next

\* C9 as claimed: the readings caluclate_avg_aq_per_hour pools into one hour bucket
\* all belong to the same calendar hour (same date, same hour).
C9_BucketHoldsOneCalendarHour ==
    task_state["caluclate_avg_aq_per_hour"] # "none" =>
        \A i \in 1..(hour_i - 1) :
            LET rows == data_for_hour(last_day_aq_data, last_24_hours(context_ts)[i])
            IN  \A j, k \in 1..Len(rows) :
                    /\ rows[j].timestamp.day = rows[k].timestamp.day
                    /\ rows[j].timestamp.hh = rows[k].timestamp.hh

\* C10: every Window reading is selected into exactly one of the 24 buckets, so the
\* bucket sizes sum to the Window's length.
C10_BucketsPartitionWindow ==
    Aggregated =>
        LET hours == last_24_hours(context_ts)
            size == [i \in 1..24 |-> Len(data_for_hour(last_day_aq_data, hours[i]))]
        IN  /\ \A j \in 1..Len(last_day_aq_data) :
                  Cardinality({i \in 1..24 :
                      last_day_aq_data[j].timestamp.hh = hours[i]}) = 1
            /\ SumOver(size, 1..24) = Len(last_day_aq_data)
            /\ \A i \in 1..24 : size[i] = Cardinality(WindowAtHour(hours[i]))

C10_Witness ==
    /\ Aggregated
    /\ Len(last_day_aq_data) = 2
    /\ last_day_aq_data[1].timestamp.hh # last_day_aq_data[2].timestamp.hh
    /\ last_day_aq_data[1].timestamp.hh = 23

====
